---- MODULE Spec2Model ----
(***************************************************************************)
(* Model of the GtwFees1 contract (src/gtwfees1.rs): one initializer, one  *)
(* payable endpoint that splits a deposit between a fees address and a     *)
(* rest address, and five storage mappers exposed as views.                *)
(*                                                                         *)
(* BigUint values are modelled as naturals.  Storage is a function from    *)
(* the storage-mapper keys that have been written to their values; a key   *)
(* that was never set is not in its domain.                                *)
(***************************************************************************)
EXTENDS Integers, Sequences, FiniteSets, TLC

\* ---------------------------------------------------------------- bounds
MaxAmount == 6
MaxMinAmount == 2

\* fee percentages tried at deployment: zero, ordinary values, the expected
\* maximum, and values above it (no upper bound is enforced by init)
Percents == {0, 1, 12, 34, 50, 99, 100, 101, 150, 200}

Addresses == {"erd1fees", "erd1rest"}
EGLD == "EGLD"
Tokens == {EGLD, "TKN-123456"}

\* OptionalArg<TokenIdentifier>: << >> is OptionalArg::None, <<t>> is Some(t)
OptTokens == {<< >>} \cup {<<t>> : t \in Tokens}

\* divisor of the fee computation, BigUint::from(100u32)
Hundred == 100

\* storage_mapper keys
KeyToken == "acceptedPaymentTokenId"
KeyFeesAddr == "acceptedFeesAddrId"
KeyRestAddr == "acceptedRestAddrId"
KeyMinAmount == "minAmount"
KeyFeesPercent == "feesInPercent"
Keys == {KeyToken, KeyFeesAddr, KeyRestAddr, KeyMinAmount, KeyFeesPercent}

\* results surfaced to the caller
Ok == "Ok"
InvalidConfiguration == "InvalidConfiguration"
WrongToken == "WrongToken"
BelowMinimum == "BelowMinimum"
ExecutionFailed == "ExecutionFailed"

VARIABLES
    status,     \* "undeployed", "deployed" (init returned Ok) or "failed"
    storage,    \* contract storage: written keys -> values
    initArgs,   \* history: the arguments init was called with
    lastCall,   \* history: the last sendToken call, its result and transfers
    retained,   \* deposited value accepted by the contract and not yet sent on
    lastView    \* history: the last accessor query and the value it returned

vars == <<status, storage, initArgs, lastCall, retained, lastView>>

\* ------------------------------------------------------------- storage
\* SingleValueMapper::set
set(st, key, value) ==
    [k \in (DOMAIN st) \cup {key} |-> IF k = key THEN value ELSE st[k]]

\* SingleValueMapper::get of a key that has been written
get(st, key) == st[key]

EmptyStorage == [k \in {} |-> 0]

\* ---------------------------------------------------------------- init
\* init with the fee check written as "not negative" instead of "positive"
init_fees_not_negative(st, min_amount, fees_in_percent, fees_addr, rest_addr, opt_token_id) ==
    IF ~(min_amount >= 0)
    THEN [result |-> InvalidConfiguration, storage |-> st]
    ELSE LET s1 == set(st, KeyMinAmount, min_amount) IN
         IF ~(fees_in_percent >= 0)
         THEN [result |-> InvalidConfiguration, storage |-> s1]
         ELSE LET s2 == set(s1, KeyFeesPercent, fees_in_percent)
                  token_id == IF opt_token_id = << >> THEN EGLD
                              ELSE opt_token_id[1]
                  s3 == set(s2, KeyFeesAddr, fees_addr)
                  s4 == set(s3, KeyRestAddr, rest_addr)
                  s5 == set(s4, KeyToken, token_id)
              IN [result |-> Ok, storage |-> s5]

\* The statements of init in program order.  The result is the SCResult and
\* the storage as the function leaves it when it returns.
init(st, min_amount, fees_in_percent, fees_addr, rest_addr, opt_token_id) ==
    IF ~(min_amount >= 0)
    THEN [result |-> InvalidConfiguration, storage |-> st]
    ELSE LET s1 == set(st, KeyMinAmount, min_amount) IN
         IF ~(fees_in_percent > 0)
         THEN [result |-> InvalidConfiguration, storage |-> s1]
         ELSE LET s2 == set(s1, KeyFeesPercent, fees_in_percent)
                  token_id == IF opt_token_id = << >> THEN EGLD
                              ELSE opt_token_id[1]
                  s3 == set(s2, KeyFeesAddr, fees_addr)
                  s4 == set(s3, KeyRestAddr, rest_addr)
                  s5 == set(s4, KeyToken, token_id)
              IN [result |-> Ok, storage |-> s5]

\* ----------------------------------------------------------- sendToken
\* the fee computed by dividing first and multiplying afterwards
amount_fees_divide_first(payment_amount, fees_in_percent) ==
    (payment_amount \div Hundred) * fees_in_percent

\* payment_amount * fees_in_percent / 100 on BigUint: multiply first, then
\* truncating division
amount_fees(payment_amount, fees_in_percent) ==
    (payment_amount * fees_in_percent) \div Hundred

\* the rest computed without taking the fee off
amount_rest_whole_payment(payment_amount, fees) == payment_amount

\* payment_amount - amount_fees
amount_rest(payment_amount, fees) == payment_amount - fees

\* a subtraction carried out on signed integers: never stops the call
sub_defined_signed(a, b) == TRUE

\* BigUint subtraction a - b has a BigUint result only when b does not
\* exceed a; otherwise the call stops at the subtraction, before any
\* transfer is issued
sub_defined(a, b) == b <= a

\* self.send().direct(to, token, 0, amount, data)
direct(to, token, amount, data) ==
    [to |-> to, token |-> token, nonce |-> 0, amount |-> amount, data |-> data]

Rejected(st, result) == [result |-> result, sent |-> << >>, storage |-> st]

\* the two checks with the minimum tested before the token
validate_min_first(st, payment_token, payment_amount) ==
    IF ~(payment_amount > get(st, KeyMinAmount)) THEN BelowMinimum
    ELSE IF ~(payment_token = get(st, KeyToken)) THEN WrongToken
    ELSE Ok

\* the minimum check written with >= instead of >
validate_non_strict(st, payment_token, payment_amount) ==
    IF ~(payment_token = get(st, KeyToken)) THEN WrongToken
    ELSE IF ~(payment_amount >= get(st, KeyMinAmount)) THEN BelowMinimum
    ELSE Ok

\* the two require! checks of sendToken, in program order; the first one
\* that fails returns its error
validate(st, payment_token, payment_amount) ==
    IF ~(payment_token = get(st, KeyToken)) THEN WrongToken
    ELSE IF ~(payment_amount > get(st, KeyMinAmount)) THEN BelowMinimum
    ELSE Ok

\* sendToken issuing the fee transfer before the minimum is checked
sendToken_pays_fees_early(st, payment_token, payment_amount) ==
    LET fees == amount_fees(payment_amount, get(st, KeyFeesPercent))
        feesTransfer == direct(get(st, KeyFeesAddr), payment_token, fees,
                               "fees from gtw sc")
    IN IF ~(payment_token = get(st, KeyToken))
       THEN Rejected(st, WrongToken)
       ELSE IF ~(payment_amount > get(st, KeyMinAmount))
       THEN [result |-> BelowMinimum, sent |-> <<feesTransfer>>, storage |-> st]
       ELSE IF ~sub_defined(payment_amount, fees)
       THEN Rejected(st, ExecutionFailed)
       ELSE [result |-> Ok,
             sent |-> << feesTransfer,
                         direct(get(st, KeyRestAddr), payment_token,
                                amount_rest(payment_amount, fees),
                                "payment from gtw sc") >>,
             storage |-> st]

\* sendToken recording the payment as the new minimum
sendToken_stores_payment(st, payment_token, payment_amount) ==
    LET v == validate(st, payment_token, payment_amount) IN
    IF v # Ok THEN Rejected(st, v)
    ELSE LET fees == amount_fees(payment_amount, get(st, KeyFeesPercent)) IN
         IF ~sub_defined(payment_amount, fees)
         THEN Rejected(st, ExecutionFailed)
         ELSE [result |-> Ok,
               sent |-> << direct(get(st, KeyFeesAddr), payment_token, fees,
                                  "fees from gtw sc"),
                           direct(get(st, KeyRestAddr), payment_token,
                                  amount_rest(payment_amount, fees),
                                  "payment from gtw sc") >>,
               storage |-> set(st, KeyMinAmount, payment_amount)]

\* sendToken with the two destinations exchanged
sendToken_swapped_destinations(st, payment_token, payment_amount) ==
    LET v == validate(st, payment_token, payment_amount) IN
    IF v # Ok THEN Rejected(st, v)
    ELSE LET fees == amount_fees(payment_amount, get(st, KeyFeesPercent)) IN
         IF ~sub_defined(payment_amount, fees)
         THEN Rejected(st, ExecutionFailed)
         ELSE [result |-> Ok,
               sent |-> << direct(get(st, KeyRestAddr), payment_token, fees,
                                  "fees from gtw sc"),
                           direct(get(st, KeyFeesAddr), payment_token,
                                  amount_rest(payment_amount, fees),
                                  "payment from gtw sc") >>,
               storage |-> st]

\* The statements of sendToken in program order.  The result is the
\* SCResult, the transfers issued in order, and the storage on return.
sendToken(st, payment_token, payment_amount) ==
    LET v == validate(st, payment_token, payment_amount) IN
    IF v # Ok THEN Rejected(st, v)
    ELSE LET fees == amount_fees(payment_amount, get(st, KeyFeesPercent)) IN
         IF ~sub_defined(payment_amount, fees)
         THEN Rejected(st, ExecutionFailed)
         ELSE [result |-> Ok,
               sent |-> << direct(get(st, KeyFeesAddr), payment_token, fees,
                                  "fees from gtw sc"),
                           direct(get(st, KeyRestAddr), payment_token,
                                  amount_rest(payment_amount, fees),
                                  "payment from gtw sc") >>,
               storage |-> st]

RECURSIVE SumAmounts(_)
SumAmounts(transfers) ==
    IF transfers = << >> THEN 0
    ELSE Head(transfers).amount + SumAmounts(Tail(transfers))

\* ------------------------------------------------------------- actions
NoCall == [token |-> "", amount |-> 0, result |-> "none", sent |-> << >>]
NoView == [key |-> "none", value |-> 0]
NoArgs == [min_amount |-> 0, fees_in_percent |-> 0, fees_addr |-> "",
           rest_addr |-> "", opt_token_id |-> << >>]

Init ==
    /\ status = "undeployed"
    /\ storage = EmptyStorage
    /\ initArgs = NoArgs
    /\ lastCall = NoCall
    /\ retained = 0
    /\ lastView = NoView

\* deployment: init is invoked once, with the five configuration values
Deploy ==
    /\ status = "undeployed"
    /\ \E min_amount \in 0..MaxMinAmount, fees_in_percent \in Percents,
          fees_addr \in Addresses, rest_addr \in Addresses,
          opt_token_id \in OptTokens :
          LET r == init(storage, min_amount, fees_in_percent, fees_addr,
                        rest_addr, opt_token_id)
          IN /\ storage' = r.storage
             /\ status' = IF r.result = Ok THEN "deployed" ELSE "failed"
             /\ initArgs' = [min_amount |-> min_amount,
                             fees_in_percent |-> fees_in_percent,
                             fees_addr |-> fees_addr,
                             rest_addr |-> rest_addr,
                             opt_token_id |-> opt_token_id]
    /\ UNCHANGED <<lastCall, retained, lastView>>

\* a deposit: the payment context supplies the token and the amount; the
\* payment is taken only when the call succeeds
SendToken ==
    /\ status = "deployed"
    /\ \E payment_token \in Tokens, payment_amount \in 0..MaxAmount :
          LET r == sendToken(storage, payment_token, payment_amount)
          IN /\ storage' = r.storage
             /\ lastCall' = [token |-> payment_token,
                             amount |-> payment_amount,
                             result |-> r.result,
                             sent |-> r.sent]
             /\ retained' = IF r.result = Ok
                            THEN retained + payment_amount - SumAmounts(r.sent)
                            ELSE retained
    /\ UNCHANGED <<status, initArgs, lastView>>

\* the five views: a read of one storage mapper
View ==
    /\ status = "deployed"
    /\ \E key \in Keys : lastView' = [key |-> key, value |-> get(storage, key)]
    /\ UNCHANGED <<status, storage, initArgs, lastCall, retained>>

Next == Deploy \/ SendToken \/ View

Spec == Init /\ [][Next]_vars

\* ---------------------------------------------------------- properties
Deployed == status = "deployed"
Called == lastCall.result # "none"
Accepted == lastCall.result = Ok

\* the configuration given at deployment
ConfiguredToken ==
    IF initArgs.opt_token_id = << >> THEN EGLD ELSE initArgs.opt_token_id[1]
Configured(key) ==
    CASE key = KeyToken -> ConfiguredToken
      [] key = KeyFeesAddr -> initArgs.fees_addr
      [] key = KeyRestAddr -> initArgs.rest_addr
      [] key = KeyMinAmount -> initArgs.min_amount
      [] key = KeyFeesPercent -> initArgs.fees_in_percent

TokenMatches == lastCall.token = ConfiguredToken
AboveMinimum == lastCall.amount > initArgs.min_amount

\* q is floor(n / 100), stated by its defining inequalities
IsFloorPercent(q, n) == Hundred * q <= n /\ n < Hundred * (q + 1)

\* the exact product amount * feesPercent of the last deposit
Product == lastCall.amount * initArgs.fees_in_percent
FeeExceedsDeposit == Product >= Hundred * (lastCall.amount + 1)

\* C1 Conservation: for every accepted deposit the two amounts sent add up
\* to the deposit amount.
C1_Conservation ==
    Accepted =>
        /\ Len(lastCall.sent) = 2
        /\ lastCall.sent[1].amount + lastCall.sent[2].amount = lastCall.amount

\* an accepted deposit with a non-zero fee, a non-zero rest and a product
\* that 100 does not divide
C1_Witness ==
    /\ Accepted
    /\ lastCall.sent[1].amount > 0
    /\ lastCall.sent[2].amount > 0
    /\ Product % Hundred # 0

\* C2 Fee formula: for every accepted deposit the amount sent to the fees
\* address is floor(amount * feesPercent / 100), never rounded up, and the
\* amount sent to the rest address is the deposit minus that fee.
C2_FeeFormula ==
    Accepted =>
        /\ IsFloorPercent(lastCall.sent[1].amount, Product)
        /\ lastCall.sent[2].amount = lastCall.amount - lastCall.sent[1].amount

\* an accepted deposit whose exact fee has a fractional part above one half
\* and whose truncated fee is not zero
C2_Witness ==
    /\ Accepted
    /\ lastCall.sent[1].amount > 0
    /\ Product % Hundred > 50

\* C3 as stated: with the configured token, a deposit at or below minAmount
\* is rejected with BelowMinimum and a deposit of minAmount + 1 is accepted.
C3_BoundaryAsStated ==
    (Deployed /\ Called /\ TokenMatches) =>
        /\ lastCall.amount <= initArgs.min_amount
              => lastCall.result = BelowMinimum
        /\ lastCall.amount = initArgs.min_amount + 1 => Accepted

\* C3 amended: with the configured token, a deposit at or below minAmount is
\* rejected with BelowMinimum; a deposit of minAmount + 1 is never rejected
\* with BelowMinimum, and it is accepted whenever its fee does not exceed
\* it, which is always the case when feesPercent <= 100.
C3_Boundary ==
    (Deployed /\ Called /\ TokenMatches) =>
        /\ lastCall.amount <= initArgs.min_amount
              => lastCall.result = BelowMinimum
        /\ lastCall.amount = initArgs.min_amount + 1 =>
              /\ lastCall.result # BelowMinimum
              /\ ~FeeExceedsDeposit => Accepted
              /\ initArgs.fees_in_percent <= Hundred => Accepted

\* a deposit of minAmount + 1 accepted under a non-zero minimum
C3_Witness ==
    /\ Deployed /\ TokenMatches
    /\ initArgs.min_amount > 0
    /\ lastCall.amount = initArgs.min_amount + 1
    /\ Accepted

\* C4 Token gating: a deposit in a token other than the configured one is
\* rejected with WrongToken whatever its amount, also at or below minAmount,
\* and nothing is sent.
C4_TokenGating ==
    (Deployed /\ Called /\ ~TokenMatches) =>
        /\ lastCall.result = WrongToken
        /\ lastCall.sent = << >>

\* a deposit failing both checks, reported as WrongToken
C4_Witness ==
    /\ Deployed /\ Called
    /\ ~TokenMatches
    /\ ~AboveMinimum
    /\ lastCall.result = WrongToken

\* C5 Configuration validation: init fails exactly when minAmount is
\* negative or feesPercent is 0; it succeeds for every minAmount >= 0 with
\* feesPercent >= 1, whatever the size of feesPercent.  (min_amount is a
\* BigUint, so the first check never fails.)
C5_ConfigValidation ==
    status # "undeployed" =>
        (status = "failed" <=>
            (initArgs.min_amount < 0 \/ initArgs.fees_in_percent = 0))

\* a deployment that succeeded with minAmount 0 and feesPercent above 100
C5_Witness ==
    /\ Deployed
    /\ initArgs.min_amount = 0
    /\ initArgs.fees_in_percent > Hundred

\* C6 Atomic rejection: a sendToken call that fails with WrongToken or
\* BelowMinimum sends nothing and changes no stored value, and no call
\* leaves exactly one of its two transfers sent.
C6_AtomicRejection ==
    /\ [](Len(lastCall.sent) \in {0, 2})
    /\ [][lastCall'.result \in {WrongToken, BelowMinimum} =>
             /\ lastCall'.sent = << >>
             /\ storage' = storage
             /\ retained' = retained]_vars

\* a deposit in the configured token rejected for its amount
C6_Witness ==
    /\ Deployed /\ TokenMatches
    /\ lastCall.result = BelowMinimum
    /\ lastCall.amount > 0

\* C7 Configuration immutability: once init has succeeded no step changes
\* the storage, the five stored values are those given at deployment, and
\* every accessor returns the value given at deployment.
C7_ConfigImmutable ==
    /\ [][Deployed => storage' = storage]_vars
    /\ [](Deployed =>
            /\ DOMAIN storage = Keys
            /\ \A k \in Keys : storage[k] = Configured(k))
    /\ [](lastView.key \in Keys => lastView.value = Configured(lastView.key))

\* the minimum read back through its accessor with an accepted deposit on
\* record whose amount differs from it
C7_Witness ==
    /\ Deployed /\ Accepted
    /\ lastView.key = KeyMinAmount
    /\ lastView.value # lastCall.amount

\* C8 Disbursement: an accepted deposit sends exactly two transfers in the
\* deposit's token, first to the fees address with memo "fees from gtw sc",
\* then to the rest address with memo "payment from gtw sc"; the contract
\* keeps none of the deposited value.
C8_Disbursement ==
    /\ retained = 0
    /\ Accepted =>
        /\ Len(lastCall.sent) = 2
        /\ lastCall.sent[1].to = initArgs.fees_addr
        /\ lastCall.sent[1].token = lastCall.token
        /\ lastCall.sent[1].data = "fees from gtw sc"
        /\ lastCall.sent[2].to = initArgs.rest_addr
        /\ lastCall.sent[2].token = lastCall.token
        /\ lastCall.sent[2].data = "payment from gtw sc"

\* an accepted deposit, in a token other than EGLD, split between two
\* different addresses
C8_Witness ==
    /\ Accepted
    /\ lastCall.token # EGLD
    /\ initArgs.fees_addr # initArgs.rest_addr
    /\ lastCall.sent[1].amount > 0

\* C9 as stated: a failed init stores none of the five fields; a successful
\* init stores all five, the token being EGLD when the argument is absent.
C9_FailedInitWritesNothing ==
    /\ status = "failed" => DOMAIN storage = {}
    /\ Deployed =>
        /\ DOMAIN storage = Keys
        /\ initArgs.opt_token_id = << >> => storage[KeyToken] = EGLD

\* C10 Split bounds: every transfer sent has an amount between 0 and the
\* deposit; a deposit in the configured token above the minimum whose fee
\* exceeds it (only possible when feesPercent > 100) is not accepted and
\* sends nothing; when feesPercent <= 100 every such deposit is accepted.
C10_SplitBounds ==
    /\ \A i \in 1..Len(lastCall.sent) :
          0 <= lastCall.sent[i].amount /\ lastCall.sent[i].amount <= lastCall.amount
    /\ (Deployed /\ Called /\ TokenMatches /\ AboveMinimum) =>
          /\ FeeExceedsDeposit =>
                /\ ~Accepted
                /\ lastCall.sent = << >>
                /\ initArgs.fees_in_percent > Hundred
          /\ initArgs.fees_in_percent <= Hundred => Accepted

\* a deposit in the configured token above the minimum that is not accepted
\* because its fee exceeds it
C10_Witness ==
    /\ Deployed /\ Called /\ TokenMatches /\ AboveMinimum
    /\ FeeExceedsDeposit
    /\ lastCall.result = ExecutionFailed

====
